---- MODULE Spec2Model ----
(***************************************************************************)
(* A model of the chat-completion client of src/src/chat.rs and            *)
(* src/src/lib.rs: the serde decoding of streamed events, the event filter *)
(* of ChatCompletionBuilder::create_stream, the derived request builder    *)
(* and the request dispatch of openai_request.                             *)
(***************************************************************************)
EXTENDS Naturals, Integers, Sequences, FiniteSets, TLC

VARIABLES
    \* ChatCompletionBuilder::create_stream, chat.rs:157-172
    events,     \* the items the EventSource has yielded to the filter so far
    parsed,     \* the payloads handed to serde_json::from_str so far
    output,     \* the ChatCompletionEvents the returned Stream has yielded
    status,     \* "idle" | "running" | "ended" | "panicked"
    \* serde_json decoding of one ChatCompletionChoiceDelta, chat.rs:38-51
    choiceIn,   \* the JSON value to decode
    choiceOut,  \* NotDecoded, or the Result of decoding choiceIn
    \* ChatCompletionBuilder and the request dispatch, chat.rs:72-155, lib.rs:24-62
    builder,    \* the builder's Option fields
    request,    \* None, or Some(the ChatCompletionRequest build() returned)
    sentBody,   \* None, or Some(the JSON body put on the wire)
    callPc,     \* "building" | "looping" | "streaming" | "returned" | "panicked"
    dbgCount    \* events printed by the dbg! loop of openai_request

vars == <<events, parsed, output, status, choiceIn, choiceOut,
          builder, request, sentBody, callPc, dbgCount>>

streamVars  == <<events, parsed, output, status>>
decodeVars  == <<choiceIn, choiceOut>>
requestVars == <<builder, request, sentBody, callPc, dbgCount>>

(***************************************************************************)
(* Bounds.                                                                 *)
(***************************************************************************)
\* Longest raw event stream fed to the filter.
MaxEvents == 3
\* Longest alternative stream a consumer's observation is compared with.
MaxTwin == 1
\* Most events the dbg! loop of openai_request prints before the source ends.
MaxDbg == 2

(***************************************************************************)
(* Rust's Option and Result.                                               *)
(***************************************************************************)
None == [some |-> FALSE]
Some(v) == [some |-> TRUE, v |-> v]
Ok(v) == [ok |-> TRUE, v |-> v]
Err(e) == [ok |-> FALSE, e |-> e]

(***************************************************************************)
(* JSON values (what serde_json parses a payload into).                    *)
(***************************************************************************)
JNull == [t |-> "null"]
JBool(b) == [t |-> "bool", b |-> b]
JStr(s) == [t |-> "str", s |-> s]
JNum(n) == [t |-> "num", n |-> n]
JArr(items) == [t |-> "arr", items |-> items]
JObj(f) == [t |-> "obj", f |-> f]

Has(v, k) == v.t = "obj" /\ k \in DOMAIN v.f

(***************************************************************************)
(* serde: the derived Deserialize implementations of chat.rs.              *)
(***************************************************************************)
\* String
DeString(v) == IF v.t = "str" THEN Ok(v.s) ELSE Err("invalid type")

\* u64
DeU64(v) == IF v.t = "num" /\ v.n >= 0 THEN Ok(v.n) ELSE Err("invalid type")

\* Option<String>: null is None, anything else is decoded as a String
DeOptionString(v) ==
    IF v.t = "null" THEN Ok(None)
    ELSE IF DeString(v).ok THEN Ok(Some(DeString(v).v))
    ELSE Err("invalid type")

\* ChatCompletionMessageRole, #[serde(rename_all = "lowercase")]
DeRole(v) ==
    IF v.t # "str" THEN Err("invalid type")
    ELSE IF v.s = "system" THEN Ok("System")
    ELSE IF v.s = "user" THEN Ok("User")
    ELSE IF v.s = "assistant" THEN Ok("Assistant")
    ELSE Err("unknown variant")

\* ChatCompletionMessageRole as Serialize writes it
SerRole(r) ==
    CASE r = "System" -> JStr("system")
      [] r = "User" -> JStr("user")
      [] r = "Assistant" -> JStr("assistant")

\* A struct variant with the one field `k`, decoded from buffered content:
\* from a map (unknown keys ignored, the field required) or from a sequence
\* (the fields in order, no element left over).
DeOneField(v, k) ==
    IF v.t = "obj" THEN (IF k \in DOMAIN v.f THEN Ok(v.f[k]) ELSE Err("missing field"))
    ELSE IF v.t = "arr" THEN (IF Len(v.items) = 1 THEN Ok(v.items[1]) ELSE Err("invalid length"))
    ELSE Err("invalid type")

\* Delta::Role { role }
DeDeltaRole(v) ==
    IF ~DeOneField(v, "role").ok THEN Err("no role")
    ELSE IF ~DeRole(DeOneField(v, "role").v).ok THEN Err("bad role")
    ELSE Ok([variant |-> "Role", role |-> DeRole(DeOneField(v, "role").v).v])

\* Delta::Content { content }
DeDeltaContent(v) ==
    IF ~DeOneField(v, "content").ok THEN Err("no content")
    ELSE IF ~DeString(DeOneField(v, "content").v).ok THEN Err("bad content")
    ELSE Ok([variant |-> "Content", content |-> DeString(DeOneField(v, "content").v).v])

\* Delta::EndOfStream {}: any map, or the empty sequence
DeDeltaEndOfStream(v) ==
    IF v.t = "obj" \/ (v.t = "arr" /\ Len(v.items) = 0)
    THEN Ok([variant |-> "EndOfStream"])
    ELSE Err("invalid type")

\* A decoder that has no EndOfStream variant to fall back on.
DeDeltaNoEndOfStream(v) ==
    IF DeDeltaRole(v).ok THEN DeDeltaRole(v)
    ELSE IF DeDeltaContent(v).ok THEN DeDeltaContent(v)
    ELSE Err("data did not match any variant of untagged enum Delta")

\* A decoder that tries Content before Role.
DeDeltaContentFirst(v) ==
    IF DeDeltaContent(v).ok THEN DeDeltaContent(v)
    ELSE IF DeDeltaRole(v).ok THEN DeDeltaRole(v)
    ELSE IF DeDeltaEndOfStream(v).ok THEN DeDeltaEndOfStream(v)
    ELSE Err("data did not match any variant of untagged enum Delta")

\* Delta, #[serde(untagged)]: the first variant, in declaration order, that
\* decodes
DeDelta(v) ==
    IF DeDeltaRole(v).ok THEN DeDeltaRole(v)
    ELSE IF DeDeltaContent(v).ok THEN DeDeltaContent(v)
    ELSE IF DeDeltaEndOfStream(v).ok THEN DeDeltaEndOfStream(v)
    ELSE Err("data did not match any variant of untagged enum Delta")

\* ChatCompletionChoiceDelta { index, delta, finish_reason }: index and delta
\* are required, a missing Option field is None, unknown fields are ignored.
\* (serde_json also reads a struct from a sequence of its fields; ChoiceJsons
\* and Payloads hold no choice or event written that way.)
DeChoiceDelta(v) ==
    IF v.t # "obj" THEN Err("invalid type")
    ELSE IF ~Has(v, "index") \/ ~Has(v, "delta") THEN Err("missing field")
    ELSE IF ~DeU64(v.f.index).ok THEN Err("index")
    ELSE IF ~DeDelta(v.f.delta).ok THEN Err("delta")
    ELSE IF Has(v, "finish_reason") /\ ~DeOptionString(v.f.finish_reason).ok
         THEN Err("finish_reason")
    ELSE Ok([index |-> DeU64(v.f.index).v,
             delta |-> DeDelta(v.f.delta).v,
             finish_reason |-> IF Has(v, "finish_reason")
                               THEN DeOptionString(v.f.finish_reason).v
                               ELSE None])

(***************************************************************************)
(* The decoding of one choice as a state machine: the input is drawn from  *)
(* ChoiceJsons, Decode applies DeChoiceDelta to it.                        *)
(***************************************************************************)
NotDecoded == [decoded |-> FALSE]
Decoded(r) == [decoded |-> TRUE, r |-> r]

RoleJsons == {JStr("assistant"), JStr("user"), JStr("tool"), JNull}
ContentJsons == {JStr("foobar"), JStr(""), JNull, JNum(1)}
DeltaFields == {"role", "content", "name"}

\* The values a delta field may hold
FieldJsons(k) ==
    IF k = "role" THEN RoleJsons
    ELSE IF k = "content" THEN ContentJsons
    ELSE {JStr("x")}

\* Every delta object over DeltaFields
DeltaObjects ==
    UNION { { JObj(f) : f \in { g \in [D -> RoleJsons \cup ContentJsons \cup {JStr("x")}] :
                                 \A k \in D : g[k] \in FieldJsons(k) } }
            : D \in SUBSET DeltaFields }

DeltaJsons ==
    DeltaObjects
    \cup {JNull, JStr("assistant"),
          JArr(<<>>), JArr(<<JStr("assistant")>>), JArr(<<JStr("foobar")>>),
          JArr(<<JStr("assistant"), JStr("foobar")>>)}

IndexJsons == {JNum(0), JNum(1), JNum(-1), JStr("0")}
FinishJsons == {JNull, JStr("stop"), JNum(0)}

ChoiceJsons ==
    { JObj([index |-> i, delta |-> d, finish_reason |-> fr]) :
        i \in IndexJsons, d \in DeltaJsons, fr \in FinishJsons }
    \cup { JObj([index |-> i, delta |-> d]) : i \in IndexJsons, d \in DeltaJsons }
    \cup { JObj([index |-> JNum(0)]), JObj([delta |-> JObj(<<>>)]), JNull }

(***************************************************************************)
(* ChatCompletionEvent and serde_json::from_str.                           *)
(***************************************************************************)
\* ModelID (models.rs): the identifiers the wire uses
ModelIDs == {"gpt-3.5-turbo"}

DeModelID(v) ==
    IF v.t = "str" /\ v.s \in ModelIDs THEN Ok(v.s) ELSE Err("unknown variant")

\* Vec<ChatCompletionChoiceDelta>: a sequence whose every element decodes
DeChoices(v) ==
    IF v.t # "arr" THEN Err("invalid type")
    ELSE IF \E i \in 1..Len(v.items) : ~DeChoiceDelta(v.items[i]).ok THEN Err("choices")
    ELSE Ok([i \in 1..Len(v.items) |-> DeChoiceDelta(v.items[i]).v])

\* ChatCompletionEvent { id, object, created, model, choices }: all required
DeEvent(v) ==
    IF v.t # "obj" THEN Err("invalid type")
    ELSE IF ~({"id", "object", "created", "model", "choices"} \subseteq DOMAIN v.f)
         THEN Err("missing field")
    ELSE IF ~DeString(v.f.id).ok \/ ~DeString(v.f.object).ok \/ ~DeU64(v.f.created).ok
            \/ ~DeModelID(v.f.model).ok \/ ~DeChoices(v.f.choices).ok
         THEN Err("invalid field")
    ELSE Ok([id |-> DeString(v.f.id).v,
             object |-> DeString(v.f.object).v,
             created |-> DeU64(v.f.created).v,
             model |-> DeModelID(v.f.model).v,
             choices |-> DeChoices(v.f.choices).v])

\* The data of a server-sent event: a text that is no JSON, or the text of
\* the JSON value v.
RawText(s) == [kind |-> "text", s |-> s]
JsonText(v) == [kind |-> "json", v |-> v]

ParseJson(d) == IF d.kind = "json" THEN Ok(d.v) ELSE Err("syntax")

\* serde_json::from_str::<ChatCompletionEvent>
FromStr(d) == IF ParseJson(d).ok THEN DeEvent(ParseJson(d).v) ELSE Err("syntax")

(***************************************************************************)
(* The items of the EventSource: Result<Event, Error>.                     *)
(***************************************************************************)
Sentinel == RawText("[DONE]")

OkOpen == Ok([event |-> "Open"])
OkMessage(d) == Ok([event |-> "Message", data |-> d])
TransportErr == Err("transport")

IsMessage(e) == e.ok /\ e.v.event = "Message"
IsSentinel(e) == IsMessage(e) /\ e.v.data = Sentinel
IsDecodable(e) == IsMessage(e) /\ ~IsSentinel(e) /\ FromStr(e.v.data).ok
IsUndecodable(e) == IsMessage(e) /\ ~IsSentinel(e) /\ ~FromStr(e.v.data).ok

Header ==
    [id |-> JStr("chatcmpl-6wBU7HGxEXqdShNC81ZlfkOLDM0MF"),
     object |-> JStr("chat.completion.chunk"),
     created |-> JNum(1679325191),
     model |-> JStr("gpt-3.5-turbo")]

EventJson(choices) == JObj(Header @@ [choices |-> JArr(choices)])

ChoiceJson(delta, i, fr) == JObj([delta |-> delta, index |-> JNum(i), finish_reason |-> fr])

\* The payloads the model's event source sends: the three of
\* tests::test_event_deserialization, a fragment of a second candidate, the
\* sentinel, and three that do not decode.
Payloads ==
    { JsonText(EventJson(<<ChoiceJson(JObj([role |-> JStr("assistant")]), 0, JNull)>>)),
      JsonText(EventJson(<<ChoiceJson(JObj([content |-> JStr("foobar")]), 0, JNull)>>)),
      JsonText(EventJson(<<ChoiceJson(JObj(<<>>), 0, JStr("stop"))>>)),
      JsonText(EventJson(<<ChoiceJson(JObj([content |-> JStr("baz")]), 1, JNull)>>)),
      Sentinel,
      RawText("{"),
      JsonText(JObj([choices |-> JArr(<<>>)])),
      JsonText(EventJson(<<ChoiceJson(JNull, 0, JNull)>>)) }

RawEvents == {OkOpen, TransportErr} \cup { OkMessage(d) : d \in Payloads }

(***************************************************************************)
(* create_stream: the closure given to filter_map.                         *)
(***************************************************************************)
\* What the closure does with one item: the item it yields (None: the event
\* is dropped), whether it panics, and the payloads it hands to from_str.
Step(item, panic, fed) == [item |-> item, panic |-> panic, fed |-> fed]

\* A closure that unwraps the transport's Result before matching it.
FilterMapUnwrapsTransport(e) ==
    IF ~e.ok THEN Step(None, TRUE, <<>>)
    ELSE IF e.v.event = "Message" /\ e.v.data # Sentinel
    THEN IF FromStr(e.v.data).ok
         THEN Step(Some(FromStr(e.v.data).v), FALSE, <<e.v.data>>)
         ELSE Step(None, TRUE, <<e.v.data>>)
    ELSE Step(None, FALSE, <<>>)

\* A closure that also drops the events that carry a finish_reason.
FilterMapDropsFinished(e) ==
    IF e.ok /\ e.v.event = "Message" /\ e.v.data # Sentinel
    THEN IF FromStr(e.v.data).ok
         THEN IF \E i \in DOMAIN FromStr(e.v.data).v.choices :
                     FromStr(e.v.data).v.choices[i].finish_reason.some
              THEN Step(None, FALSE, <<e.v.data>>)
              ELSE Step(Some(FromStr(e.v.data).v), FALSE, <<e.v.data>>)
         ELSE Step(None, TRUE, <<e.v.data>>)
    ELSE Step(None, FALSE, <<>>)

FilterMap(e) ==
    IF e.ok /\ e.v.event = "Message" /\ e.v.data # Sentinel
    THEN IF FromStr(e.v.data).ok
         THEN Step(Some(FromStr(e.v.data).v), FALSE, <<e.v.data>>)
         ELSE Step(None, TRUE, <<e.v.data>>)      \* .unwrap() of an Err
    ELSE Step(None, FALSE, <<>>)

\* The stream polls the event source, which yields e.
Poll(e) ==
    /\ status = "running"
    /\ Len(events) < MaxEvents
    /\ events' = Append(events, e)
    /\ parsed' = parsed \o FilterMap(e).fed
    /\ output' = IF FilterMap(e).item.some
                 THEN Append(output, FilterMap(e).item.v)
                 ELSE output
    /\ status' = IF FilterMap(e).panic THEN "panicked" ELSE "running"
    /\ UNCHANGED <<decodeVars, requestVars>>

\* The event source yields None (it was closed): so does the stream.
SourceEnd ==
    /\ status = "running"
    /\ status' = "ended"
    /\ UNCHANGED <<events, parsed, output, decodeVars, requestVars>>

\* The stream's output and state after the event source yielded evs, as a fold
\* of the closure.
RECURSIVE Run(_)
Run(evs) ==
    IF evs = <<>> THEN [output |-> <<>>, status |-> "running"]
    ELSE LET before == Run(SubSeq(evs, 1, Len(evs) - 1))
             r == FilterMap(evs[Len(evs)])
         IN  IF before.status # "running" THEN before
             ELSE [output |-> IF r.item.some THEN Append(before.output, r.item.v)
                              ELSE before.output,
                   status |-> IF r.panic THEN "panicked" ELSE "running"]

(***************************************************************************)
(* ChatCompletionRequest and the ChatCompletionBuilder derive_builder      *)
(* generates for it (pattern = "owned", setter(strip_option, into)).       *)
(***************************************************************************)
RequiredFields == {"model", "messages"}
\* Option<T> fields with #[builder(default)]: strip_option setters
OptionFields == {"temperature", "top_p", "n", "max_tokens", "presence_penalty",
                 "frequency_penalty", "logit_bias"}
\* Vec / String fields with #[builder(default)]
PlainFields == {"stop", "user"}
\* The fields that have a setter: `stream` is #[builder(setter(skip))]
SetterFields == RequiredFields \cup OptionFields \cup PlainFields

Hello == [role |-> "User", content |-> "Hello!", name |-> None]

\* The arguments the model's callers give each setter
SetterValues(k) ==
    CASE k = "model" -> {"gpt-3.5-turbo"}
      [] k = "messages" -> {<<Hello>>}
      [] k = "stop" -> {<<>>, <<"END">>}
      [] k = "user" -> {"user-1"}
      [] k = "logit_bias" -> {[t50256 |-> -100]}
      [] OTHER -> {0}

\* ChatCompletionBuilder::create_empty()
EmptyBuilder == [k \in SetterFields |-> None]

\* ChatCompletion::builder(model, messages)
NewBuilder(model, messages) ==
    [EmptyBuilder EXCEPT !["model"] = Some(model), !["messages"] = Some(messages)]

\* A setter: an Option<T> field takes a T and stores Some(T)
SetField(b, k, v) ==
    [b EXCEPT ![k] = IF k \in OptionFields THEN Some(Some(v)) ELSE Some(v)]

\* A `stream` field declared #[builder(default)] like its neighbours.
DefaultStreamNone == None

\* #[builder(setter(skip), default = "Some(true)")]
DefaultStream == Some(TRUE)

\* ChatCompletionBuilder::build()
Build(b) ==
    IF \E k \in RequiredFields : ~b[k].some THEN Err("UninitializedField")
    ELSE Ok([k \in SetterFields \cup {"stream"} |->
                IF k = "stream" THEN DefaultStream
                ELSE IF b[k].some THEN b[k].v
                ELSE IF k \in OptionFields THEN None
                ELSE IF k = "stop" THEN <<>>
                ELSE ""])

\* ChatCompletionMessage as Serialize writes it: name is skipped when None
SerMessage(m) ==
    JObj([k \in {"role", "content"} \cup (IF m.name.some THEN {"name"} ELSE {}) |->
            IF k = "role" THEN SerRole(m.role)
            ELSE IF k = "content" THEN JStr(m.content)
            ELSE JStr(m.name.v)])

\* The fields of a request that skip_serializing_if leaves out
Skipped(req) ==
    { k \in OptionFields \cup {"stream"} : ~req[k].some }
    \cup (IF req.stop = <<>> THEN {"stop"} ELSE {})
    \cup (IF req.user = "" THEN {"user"} ELSE {})

\* ChatCompletionRequest as Serialize writes it (RequestBuilder::json)
SerRequest(req) ==
    JObj([k \in (DOMAIN req) \ Skipped(req) |->
            CASE k = "model" -> JStr(req.model)
              [] k = "messages" -> JArr([i \in 1..Len(req.messages) |-> SerMessage(req.messages[i])])
              [] k = "stream" -> JBool(req.stream.v)
              [] k = "stop" -> JArr([i \in 1..Len(req.stop) |-> JStr(req.stop[i])])
              [] k = "user" -> JStr(req.user)
              [] k = "logit_bias" -> JObj([t \in DOMAIN req.logit_bias.v |-> JNum(req.logit_bias.v[t])])
              [] OTHER -> JNum(req[k].v)])

\* A builder setter is called.
Setter(k, v) ==
    /\ callPc = "building"
    /\ builder' = SetField(builder, k, v)
    /\ UNCHANGED <<request, sentBody, callPc, dbgCount, streamVars, decodeVars>>

\* ChatCompletionBuilder::create, then ChatCompletion::create, openai_post and
\* openai_request up to its loop: build().unwrap(), the request with its JSON
\* body, EventSource::new(..).unwrap().
Create ==
    /\ callPc = "building"
    /\ IF Build(builder).ok
       THEN /\ request' = Some(Build(builder).v)
            /\ sentBody' = Some(SerRequest(Build(builder).v))
            /\ callPc' = "looping"
       ELSE /\ callPc' = "build_panicked"
            /\ UNCHANGED <<request, sentBody>>
    /\ UNCHANGED <<builder, dbgCount, streamVars, decodeVars>>

\* openai_request: events.next() yields an event, which dbg! prints.
RequestNextEvent ==
    /\ callPc = "looping"
    /\ dbgCount < MaxDbg
    /\ dbgCount' = dbgCount + 1
    /\ UNCHANGED <<builder, request, sentBody, callPc, streamVars, decodeVars>>

\* openai_request: events.next() yields None, the loop ends and todo!() panics.
RequestTodo ==
    /\ callPc = "looping"
    /\ callPc' = "todo_panicked"
    /\ UNCHANGED <<builder, request, sentBody, dbgCount, streamVars, decodeVars>>

\* ChatCompletionBuilder::create_stream: build().unwrap(), the request with
\* its JSON body, EventSource::new(..).unwrap(), and the filtered stream.
CreateStream ==
    /\ callPc = "building"
    /\ IF Build(builder).ok
       THEN /\ request' = Some(Build(builder).v)
            /\ sentBody' = Some(SerRequest(Build(builder).v))
            /\ callPc' = "streaming"
            /\ status' = "running"
       ELSE /\ callPc' = "build_panicked"
            /\ UNCHANGED <<request, sentBody, status>>
    /\ UNCHANGED <<builder, dbgCount, events, parsed, output, decodeVars>>

\* serde decodes the choice.
Decode ==
    /\ choiceOut = NotDecoded
    /\ choiceOut' = Decoded(DeChoiceDelta(choiceIn))
    /\ UNCHANGED <<choiceIn, streamVars, requestVars>>

(***************************************************************************)
(* Specifications.                                                         *)
(***************************************************************************)
StreamIdle == events = <<>> /\ parsed = <<>> /\ output = <<>> /\ status = "idle"
DecodeIdle == choiceIn = JNull /\ choiceOut = NotDecoded
RequestUnsent == request = None /\ sentBody = None /\ callPc = "building" /\ dbgCount = 0

\* The streaming call: a builder from ChatCompletion::builder, create_stream,
\* and the events the source then yields.
Init ==
    /\ builder = NewBuilder("gpt-3.5-turbo", <<Hello>>)
    /\ RequestUnsent
    /\ StreamIdle
    /\ DecodeIdle

Next ==
    \/ CreateStream
    \/ \E e \in RawEvents : Poll(e)
    \/ SourceEnd

Spec == Init /\ [][Next]_vars

\* The builder and the two calls that consume it.
InitRequest ==
    /\ builder = EmptyBuilder
    /\ RequestUnsent
    /\ StreamIdle
    /\ DecodeIdle

NextRequest ==
    \/ \E k \in SetterFields : \E v \in SetterValues(k) : Setter(k, v)
    \/ Create
    \/ CreateStream
    \/ RequestNextEvent
    \/ RequestTodo

SpecRequest == InitRequest /\ [][NextRequest]_vars

\* The decoding of one choice delta.
InitDecode ==
    /\ choiceIn \in ChoiceJsons
    /\ choiceOut = NotDecoded
    /\ builder = EmptyBuilder
    /\ RequestUnsent
    /\ StreamIdle

NextDecode == Decode

SpecDecode == InitDecode /\ [][NextDecode]_vars

(***************************************************************************)
(* Properties of the streaming decoder (Spec).                             *)
(***************************************************************************)
Last(seq) == seq[Len(seq)]
Front(seq) == SubSeq(seq, 1, Len(seq) - 1)

\* C1: a message whose payload is the sentinel "[DONE]" is never handed to
\* the JSON decoder, and it ends the produced sequence: whatever the event
\* source yields after the sentinel, the output is what it was when the
\* sentinel arrived.
C1_SentinelEndsSequence ==
    /\ \A i \in 1..Len(parsed) : parsed[i] # Sentinel
    /\ \A i \in 1..Len(events) :
          IsSentinel(events[i]) => output = Run(SubSeq(events, 1, i)).output

\* C2: a message that is not the sentinel and does not decode as a
\* ChatCompletionEvent never panics the decoder.
C2_UndecodableNeverPanics ==
    (\E i \in 1..Len(events) : IsUndecodable(events[i])) => status # "panicked"

\* What the consumer of the stream has been given: the items, and whether the
\* stream has yielded None.
Observed(out, st) == [items |-> out, finished |-> st = "ended"]

\* What happened on the wire.
Outcome(evs, st) ==
    IF evs = <<>> THEN "other"
    ELSE IF st = "ended" /\ IsSentinel(Last(evs)) THEN "ended_cleanly"
    ELSE IF st = "ended" /\ ~Last(evs).ok THEN "ended_by_error"
    ELSE IF st = "running" /\ IsUndecodable(Last(evs)) THEN "undecodable_continues"
    ELSE "other"

Twins == UNION { [1..n -> RawEvents] : n \in 0..MaxTwin }

\* C3: the consumer can tell a clean end, an end by error and an undecodable
\* event of a continuing stream apart: two streams with different ones of these
\* outcomes never give the consumer the same observation.
C3_OutcomesDistinguishable ==
    status \in {"running", "ended"} =>
        \A evs2 \in Twins : \A st2 \in {"running", "ended"} :
            ( /\ Run(evs2).status = "running"
              /\ Outcome(events, status) # "other"
              /\ Outcome(evs2, st2) # "other"
              /\ Outcome(evs2, st2) # Outcome(events, status) )
            => Observed(Run(evs2).output, st2) # Observed(output, status)

\* C4: a transport error and a non-message event yield no output element and
\* leave the decoder running, and a decodable message that comes after one is
\* still emitted.
C4_NonMessagesAreDropped ==
    [][ \A e \in RawEvents :
          events' = Append(events, e) =>
              /\ ~IsMessage(e) => (output' = output /\ status' = "running")
              /\ (IsDecodable(e) /\ \E i \in 1..Len(events) : ~IsMessage(events[i]))
                    => (output' = Append(output, FromStr(e.v.data).v)
                        /\ status' = "running") ]_vars

\* C4's case: a transport error, then a decodable message, which was emitted.
C4_Witness ==
    /\ Len(events) = 2
    /\ events[1] = TransportErr
    /\ IsDecodable(events[2])
    /\ output = <<FromStr(events[2].v.data).v>>
    /\ status = "running"

\* The decoded images of the decodable non-sentinel messages of evs, in order.
RECURSIVE Images(_)
Images(evs) ==
    IF evs = <<>> THEN <<>>
    ELSE IF IsDecodable(Last(evs))
         THEN Append(Images(Front(evs)), FromStr(Last(evs).v.data).v)
         ELSE Images(Front(evs))

\* C5: the output is exactly the decoded images of the received decodable
\* non-sentinel messages, one per message, in arrival order.
C5_OutputIsImagesInOrder == output = Images(events)

\* C5's case: three events received, two of them emitted, for two different
\* candidate indices.
C5_Witness ==
    /\ Len(events) = 3
    /\ Len(output) = 2
    /\ output[1].choices[1].index # output[2].choices[1].index

(***************************************************************************)
(* Properties of the builder and of the non-streaming call (SpecRequest).  *)
(***************************************************************************)
\* C6: the non-streaming create returns to its caller and never panics.
C6_CreateReturns == callPc # "todo_panicked"

\* C9: every request the builder produces has stream = Some(true), and so
\* the body both create and create_stream send carries "stream": true.
C9_StreamFlagAlwaysSet ==
    /\ request.some => request.v.stream = Some(TRUE)
    /\ sentBody.some => (Has(sentBody.v, "stream") /\ sentBody.v.f.stream = JBool(TRUE))

\* C9's case: a request built after setters were called, sent by create_stream.
C9_Witness ==
    /\ callPc = "streaming"
    /\ request.some
    /\ sentBody.some
    /\ builder.temperature.some
    /\ builder.stop.some

(***************************************************************************)
(* Properties of the decoding of a choice delta (SpecDecode).              *)
(***************************************************************************)
WireRoles == {"system", "user", "assistant"}

RoleNamed(s) ==
    CASE s = "system" -> "System" [] s = "user" -> "User" [] s = "assistant" -> "Assistant"

\* The choice is an object whose index is a u64, whose delta is an object and
\* whose finish_reason, when present, is null or a string.
DeltaCase ==
    /\ choiceOut.decoded
    /\ Has(choiceIn, "index") /\ choiceIn.f.index.t = "num" /\ choiceIn.f.index.n >= 0
    /\ Has(choiceIn, "delta") /\ choiceIn.f.delta.t = "obj"
    /\ Has(choiceIn, "finish_reason") => choiceIn.f.finish_reason.t \in {"null", "str"}

HasValidRole(d) == "role" \in DOMAIN d /\ d.role.t = "str" /\ d.role.s \in WireRoles
HasStringContent(d) == "content" \in DOMAIN d /\ d.content.t = "str"

\* C7: a delta with only a valid role decodes to Delta::Role with that role,
\* one with only a content string to Delta::Content with that text, the empty
\* delta to Delta::EndOfStream; index and finish_reason (null is None, a
\* string is Some) are carried over.
C7_VariantByFieldsPresent ==
    DeltaCase =>
        LET d == choiceIn.f.delta.f
            r == choiceOut.r
        IN  /\ (DOMAIN d = {"role"} /\ HasValidRole(d)) =>
                  (r.ok /\ r.v.delta = [variant |-> "Role", role |-> RoleNamed(d.role.s)])
            /\ (DOMAIN d = {"content"} /\ HasStringContent(d)) =>
                  (r.ok /\ r.v.delta = [variant |-> "Content", content |-> d.content.s])
            /\ DOMAIN d = {} => (r.ok /\ r.v.delta = [variant |-> "EndOfStream"])
            /\ r.ok =>
                  /\ r.v.index = choiceIn.f.index.n
                  /\ r.v.finish_reason =
                        IF Has(choiceIn, "finish_reason") /\ choiceIn.f.finish_reason.t = "str"
                        THEN Some(choiceIn.f.finish_reason.s)
                        ELSE None

\* C7's case: the empty delta with finish_reason "stop" was decoded.
C7_Witness ==
    /\ DeltaCase
    /\ DOMAIN choiceIn.f.delta.f = {}
    /\ Has(choiceIn, "finish_reason") /\ choiceIn.f.finish_reason = JStr("stop")
    /\ choiceOut.r.ok
    /\ choiceOut.r.v.finish_reason = Some("stop")

\* C10: decoding a delta object never fails, and the variants are tried in the
\* order Role, Content, EndOfStream: a valid role wins over a content, a string
\* content is taken when there is no valid role, and an object with neither
\* decodes to Delta::EndOfStream.
C10_TotalInVariantOrder ==
    DeltaCase =>
        LET d == choiceIn.f.delta.f
            r == choiceOut.r
        IN  /\ r.ok
            /\ HasValidRole(d) =>
                  r.v.delta = [variant |-> "Role", role |-> RoleNamed(d.role.s)]
            /\ (~HasValidRole(d) /\ HasStringContent(d)) =>
                  r.v.delta = [variant |-> "Content", content |-> d.content.s]
            /\ (~HasValidRole(d) /\ ~HasStringContent(d)) =>
                  r.v.delta = [variant |-> "EndOfStream"]

\* C10's case: a delta with both a valid role and a content was decoded, to
\* Delta::Role.
C10_Witness ==
    /\ DeltaCase
    /\ HasValidRole(choiceIn.f.delta.f)
    /\ HasStringContent(choiceIn.f.delta.f)
    /\ choiceOut.r.ok
    /\ choiceOut.r.v.delta.variant = "Role"

====
